---- MODULE Spec2Model ----
(***************************************************************************)
(* svg_text.py: print the text of every SVG <text> element of the files    *)
(* named on the command line.  The model follows main() statement by       *)
(* statement; documents are streams of parser events, strings are          *)
(* sequences of characters.                                                *)
(***************************************************************************)
EXTENDS Integers, Sequences, FiniteSets, TLC

VARIABLES svg_files, id, whitespace, stdin, pc, idx, rtn, file_handle,
          tree, iter, element, prefix, text, stdout, stderr, opens, closes,
          exc, status

vars == <<svg_files, id, whitespace, stdin, pc, idx, rtn, file_handle,
          tree, iter, element, prefix, text, stdout, stderr, opens, closes,
          exc, status>>

(***************************************************************************)
(* Bounds of the model.                                                    *)
(***************************************************************************)
\* longest command line drawn from all of FileNames
MaxFiles == 3
\* longest run of failing opens put in front of a short command line
MaxFails == 257

(***************************************************************************)
(* Sequences.                                                              *)
(***************************************************************************)
RECURSIVE Concat(_)
Concat(ss) == IF ss = <<>> THEN <<>> ELSE Head(ss) \o Concat(Tail(ss))

RECURSIVE SeqsUpTo(_, _)
SeqsUpTo(S, n) ==
  IF n = 0 THEN {<<>>}
  ELSE LET shorter == SeqsUpTo(S, n - 1)
       IN  shorter \cup {Append(s, x) : s \in shorter, x \in S}

Range(s) == {s[i] : i \in DOMAIN s}

(***************************************************************************)
(* Characters.  A character is a one-character string, or the name of its  *)
(* code point when TLA+ cannot write it.                                   *)
(***************************************************************************)
NBSP == "U+00A0"
VT == "U+000B"
NEL == "U+0085"

\* the characters str.split() and str.isspace() take as whitespace
PyWhitespace == {" ", "\t", "\n", "\r", "\f", VT, "U+001C", "U+001D",
                 "U+001E", "U+001F", NEL, NBSP}

\* the whitespace of the XML grammar (rule S)
XmlWhitespace == {" ", "\t", "\n", "\r"}

\* control characters that are not XML 1.0 Chars
NotXmlChar == {"\f", VT, "U+001C", "U+001D", "U+001E", "U+001F"}

(***************************************************************************)
(* Documents: the events the XML parser reports while it reads a file.     *)
(***************************************************************************)
SVG_TEXT == "{http://www.w3.org/2000/svg}text"
SVG_SVG == "{http://www.w3.org/2000/svg}svg"
SVG_TSPAN == "{http://www.w3.org/2000/svg}tspan"
SVG_G == "{http://www.w3.org/2000/svg}g"
XHTML_TEXT == "{http://www.w3.org/1999/xhtml}text"

NoAttrib == [a \in {} |-> <<>>]
S(tag, attrib) == [k |-> "start", tag |-> tag, attrib |-> attrib]
D(chars) == [k |-> "data", chars |-> chars]
E(tag) == [k |-> "end", tag |-> tag]

\* <svg><text id="t1">a  b</text><text id="w"> &#13;\n</text></svg>
DocOne ==
  << S(SVG_SVG, NoAttrib),
       S(SVG_TEXT, [id |-> <<"t", "1">>]), D(<<"a", " ", " ", "b">>),
       E(SVG_TEXT),
       S(SVG_TEXT, [id |-> <<"w">>]), D(<<" ", "\r", "\n">>), E(SVG_TEXT),
     E(SVG_SVG) >>

\* <text id=""> a<tspan>b<text id="n">c&#160;'d</text>x</tspan>\n<g/>y</text>
DocNested ==
  << S(SVG_TEXT, [id |-> <<>>]), D(<<" ", "a">>),
       S(SVG_TSPAN, NoAttrib), D(<<"b">>),
         S(SVG_TEXT, [id |-> <<"n">>]), D(<<"c", NBSP>>), D(<<"'", "d">>),
         E(SVG_TEXT), D(<<"x">>),
       E(SVG_TSPAN), D(<<"\n">>),
       S(SVG_G, NoAttrib), E(SVG_G), D(<<"y">>),
     E(SVG_TEXT) >>

\* <svg>\n<text id="p">p\t</text> <text x="0">q</text><text id="r"/></svg>
DocNoId ==
  << S(SVG_SVG, NoAttrib), D(<<"\n">>),
       S(SVG_TEXT, [id |-> <<"p">>]), D(<<"p", "\t">>), E(SVG_TEXT), D(<<" ">>),
       S(SVG_TEXT, [x |-> <<"0">>]), D(<<"q">>), E(SVG_TEXT),
       S(SVG_TEXT, [id |-> <<"r">>]), E(SVG_TEXT),
     E(SVG_SVG) >>

\* <svg><h:text id="h">h</h:text><text xmlns="">t</text><g/></svg>
DocNoText ==
  << S(SVG_SVG, NoAttrib),
       S(XHTML_TEXT, [id |-> <<"h">>]), D(<<"h">>), E(XHTML_TEXT),
       S("text", NoAttrib), D(<<"t">>), E("text"),
       S(SVG_G, NoAttrib), E(SVG_G),
     E(SVG_SVG) >>

\* <svg><text id="b">a</svg>
DocBad ==
  << S(SVG_SVG, NoAttrib), S(SVG_TEXT, [id |-> <<"b">>]), D(<<"a">>),
     E(SVG_SVG) >>

\* <text></text>
DocStdin == << S(SVG_TEXT, NoAttrib), E(SVG_TEXT) >>

(***************************************************************************)
(* The file system the program runs against.                               *)
(***************************************************************************)
File(events) == [kind |-> "file", events |-> events]
NoFile(strerror) == [kind |-> "error", strerror |-> strerror]

FileNames == {"-", "one.svg", "nested.svg", "noid.svg", "notext.svg",
              "bad.svg", "missing.svg"}

FileSystem(filename) ==
  CASE filename = "one.svg" -> File(DocOne)
    [] filename = "nested.svg" -> File(DocNested)
    [] filename = "noid.svg" -> File(DocNoId)
    [] filename = "notext.svg" -> File(DocNoText)
    [] filename = "bad.svg" -> File(DocBad)
    [] OTHER -> NoFile("No such file or directory")

(***************************************************************************)
(* ET.parse: expat reports the events, TreeBuilder builds the elements.    *)
(* An element is named by the position of its start tag in the document.   *)
(***************************************************************************)
None == [kind |-> "None"]
Str(s) == [kind |-> "str", s |-> s]
\* the truth value Python gives an optional string
Truthy(v) == v.kind = "str" /\ v.s # <<>>

Element(tag, attrib) ==
  [tag |-> tag, attrib |-> attrib, text |-> None, tail |-> None,
   children |-> <<>>]

NoNodes == [n \in {} |-> None]

TreeBuilder ==
  [elem |-> <<>>, nodes |-> NoNodes, root |-> 0, last |-> 0, tail |-> FALSE,
   data |-> <<>>, err |-> FALSE]

Flush(b) ==
  IF b.data = <<>> THEN b
  ELSE LET cleared == [b EXCEPT !.data = <<>>]
       IN  IF b.last = 0 THEN cleared
           ELSE IF b.tail
                THEN [cleared EXCEPT !.nodes[b.last].tail = Str(b.data)]
                ELSE [cleared EXCEPT !.nodes[b.last].text = Str(b.data)]

BuilderStart(b, i, ev) ==
  LET f == Flush(b)
      made == (i :> Element(ev.tag, ev.attrib)) @@ f.nodes
      linked == IF f.elem # <<>>
                THEN [made EXCEPT ![f.elem[Len(f.elem)]].children = Append(@, i)]
                ELSE made
  IN  [f EXCEPT !.nodes = linked,
                !.root = IF f.elem = <<>> /\ f.root = 0 THEN i ELSE @,
                !.elem = Append(f.elem, i),
                !.last = i,
                !.tail = FALSE]

BuilderData(b, ev) == [b EXCEPT !.data = b.data \o ev.chars]

BuilderEnd(b) ==
  LET f == Flush(b)
  IN  [f EXCEPT !.last = f.elem[Len(f.elem)],
                !.elem = SubSeq(f.elem, 1, Len(f.elem) - 1),
                !.tail = TRUE]

\* one event through expat's well-formedness checks and on to the builder
Feed(b, i, ev) ==
  LET fail == [b EXCEPT !.err = TRUE]
  IN  CASE b.err -> b
        [] ev.k = "start" ->
             IF b.elem = <<>> /\ b.root # 0 THEN fail   \* junk after document element
             ELSE BuilderStart(b, i, ev)
        [] ev.k = "data" ->
             IF Range(ev.chars) \cap NotXmlChar # {} THEN fail   \* invalid token
             ELSE IF b.elem = <<>>
                  THEN IF Range(ev.chars) \subseteq XmlWhitespace THEN b
                       ELSE fail                        \* text outside the root
                  ELSE BuilderData(b, ev)
        [] ev.k = "end" ->
             IF b.elem = <<>> THEN fail
             ELSE IF b.nodes[b.elem[Len(b.elem)]].tag # ev.tag THEN fail  \* mismatched tag
             ELSE BuilderEnd(b)

RECURSIVE FeedAll(_, _, _)
FeedAll(b, events, i) ==
  IF i > Len(events) THEN b ELSE FeedAll(Feed(b, i, events[i]), events, i + 1)

NoTree == [ok |-> FALSE, root |-> 0, nodes |-> NoNodes]

\* ET.parse(svgfile): the tree, or ok = FALSE where it raises ParseError
Parse(events) ==
  LET b == FeedAll(TreeBuilder, events, 1)
  IN  IF b.err \/ b.root = 0 \/ b.elem # <<>>   \* no element found
      THEN NoTree
      ELSE [ok |-> TRUE, root |-> b.root, nodes |-> b.nodes]

(***************************************************************************)
(* Element.iter(tag): the element, then its children's iter(tag), in       *)
(* order. "*" stands for no tag given.                                     *)
(***************************************************************************)
RECURSIVE ElementIter(_, _, _)
ElementIter(nodes, n, tag) ==
  (IF tag = "*" \/ nodes[n].tag = tag THEN <<n>> ELSE <<>>)
  \o Concat([k \in DOMAIN nodes[n].children |->
               ElementIter(nodes, nodes[n].children[k], tag)])

\* a traversal that looks below the root only
TreeIter_BelowRoot(t, tag) ==
  Concat([k \in DOMAIN t.nodes[t.root].children |->
            ElementIter(t.nodes, t.nodes[t.root].children[k], tag)])

\* tree.iter(tag)
TreeIter(t, tag) == ElementIter(t.nodes, t.root, tag)

\* a join that takes the tail of every element along with its text
get_childrens_text_WithTails(nodes, elt) ==
  LET all == ElementIter(nodes, elt, "*")
      own(v) == IF Truthy(v) THEN v.s ELSE <<>>
  IN  Concat([k \in DOMAIN all |->
                own(nodes[all[k]].text) \o own(nodes[all[k]].tail)])

get_childrens_text(nodes, elt) ==
  LET withText == SelectSeq(ElementIter(nodes, elt, "*"),
                            LAMBDA child : Truthy(nodes[child].text))
  IN  Concat([k \in DOMAIN withText |-> nodes[withText[k]].text.s])

(***************************************************************************)
(* str.split(), str.join() and repr() of a string.                         *)
(***************************************************************************)
\* whitespace as the C locale has it
isspace_Ascii(c) == c \in {" ", "\t", "\n", "\r", "\f", VT}

isspace(c) == c \in PyWhitespace

RECURSIVE SkipSpace(_, _)
SkipSpace(s, i) ==
  IF i <= Len(s) /\ isspace(s[i]) THEN SkipSpace(s, i + 1) ELSE i

RECURSIVE SkipWord(_, _)
SkipWord(s, i) ==
  IF i <= Len(s) /\ ~isspace(s[i]) THEN SkipWord(s, i + 1) ELSE i

RECURSIVE SplitFrom(_, _)
SplitFrom(s, i) ==
  LET j == SkipSpace(s, i)
      e == SkipWord(s, j)
  IN  IF j > Len(s) THEN <<>>
      ELSE <<SubSeq(s, j, e - 1)>> \o SplitFrom(s, e)

split(s) == SplitFrom(s, 1)

RECURSIVE join(_, _)
join(sep, words) ==
  IF words = <<>> THEN <<>>
  ELSE IF Len(words) = 1 THEN words[1]
  ELSE words[1] \o sep \o join(sep, Tail(words))

Quote(s) == IF "'" \in Range(s) /\ "\"" \notin Range(s) THEN "\"" ELSE "'"

Escape(c, quote) ==
  CASE c = quote \/ c = "\\" -> <<"\\", c>>
    [] c = "\t" -> <<"\\", "t">>
    [] c = "\n" -> <<"\\", "n">>
    [] c = "\r" -> <<"\\", "r">>
    [] c = "\f" -> <<"\\", "x", "0", "c">>
    [] c = VT -> <<"\\", "x", "0", "b">>
    [] c = "U+001C" -> <<"\\", "x", "1", "c">>
    [] c = "U+001D" -> <<"\\", "x", "1", "d">>
    [] c = "U+001E" -> <<"\\", "x", "1", "e">>
    [] c = "U+001F" -> <<"\\", "x", "1", "f">>
    [] c = NEL -> <<"\\", "x", "8", "5">>
    [] c = NBSP -> <<"\\", "x", "a", "0">>
    [] OTHER -> <<c>>

repr(s) ==
  LET q == Quote(s)
  IN  <<q>> \o Concat([k \in DOMAIN s |-> Escape(s[k], q)]) \o <<q>>

(***************************************************************************)
(* The program.                                                            *)
(***************************************************************************)
progname == "svg_text.py"

\* the command lines of the model: every short one, and long runs of a
\* file that does not exist (255 is the largest exit status a POSIX wait
\* can report), alone or in front of a file that does
CommandLines ==
  SeqsUpTo(FileNames, MaxFiles)
  \cup {[i \in 1..n |-> "missing.svg"] \o rest :
          n \in 255..MaxFails, rest \in {<<>>, <<"one.svg">>}}

Init ==
  /\ svg_files \in CommandLines
  /\ id \in BOOLEAN
  /\ whitespace \in BOOLEAN
  /\ stdin = DocStdin
  /\ pc = "main"
  /\ idx = 0
  /\ rtn = 0
  /\ file_handle = "None"
  /\ tree = NoTree
  /\ iter = <<>>
  /\ element = 0
  /\ prefix = <<>>
  /\ text = <<>>
  /\ stdout = <<>>
  /\ stderr = <<>>
  /\ opens = <<>>
  /\ closes = <<>>
  /\ exc = "None"
  /\ status = -1

filename == svg_files[idx]

\* the statements of the body of the with statement
InWith == pc \in {"parse", "iter", "prefix", "text", "ws", "print"}

\* a finally clause that closes whatever it was given
Finally_ClosesAll(name, pos, handle, closed) ==
  Append(closed, [pos |-> pos, handle |-> handle])

\* open_ro_with_error's finally clause: close all but standard input
Finally(name, pos, handle, closed) ==
  IF name # "-" THEN Append(closed, [pos |-> pos, handle |-> handle])
  ELSE closed

\* the status the process ends with when sys.exit is given n: the low 8
\* bits where the parent waits for it the POSIX way, and n itself where the
\* system keeps 32 bits (every n of the model fits)
ExitStatuses(n) == {n % 256, n}

\* what the __main__ block does with an exception that leaves main()
Handler(e) ==
  CASE e = "KeyboardInterrupt" ->
         [line |-> <<"Keyboard interrupt">>, status |-> 255]
    [] e = "BrokenPipeError" ->
         [line |-> <<"Broken pipe">>, status |-> 255]
    [] OTHER ->
         [line |-> <<"Traceback (most recent call last):", e>>, status |-> 1]

\* an exception raised in main(): it leaves the with statement when it is
\* raised inside one, then main(), and reaches the __main__ block
Raise(e) ==
  /\ closes' = IF InWith
               THEN Finally(filename, idx, file_handle, closes)
               ELSE closes
  /\ stderr' = Append(stderr, Handler(e).line)
  /\ status' = Handler(e).status
  /\ exc' = e
  /\ pc' = "exit"
  /\ UNCHANGED <<svg_files, id, whitespace, stdin, idx, rtn, file_handle,
                 tree, iter, element, prefix, text, stdout, opens>>

\* lines 90-94
ParseArgs ==
  /\ pc = "main"
  /\ svg_files' = IF svg_files = <<>> THEN <<"-">> ELSE svg_files
  /\ rtn' = 0
  /\ pc' = "for"
  /\ UNCHANGED <<id, whitespace, stdin, idx, file_handle, tree, iter,
                 element, prefix, text, stdout, stderr, opens, closes, exc,
                 status>>

\* lines 95-96 and 46-55: the next file name opens
OpenFile ==
  /\ pc = "for"
  /\ idx < Len(svg_files)
  /\ LET name == svg_files[idx + 1]
     IN  /\ name = "-" \/ FileSystem(name).kind = "file"
         /\ file_handle' = IF name = "-" THEN "stdin" ELSE "file"
         /\ opens' = Append(opens, [pos |-> idx + 1, handle |-> file_handle'])
  /\ idx' = idx + 1
  /\ pc' = "parse"
  /\ UNCHANGED <<svg_files, id, whitespace, stdin, rtn, tree, iter, element,
                 prefix, text, stdout, stderr, closes, exc, status>>

\* a failed open that returns from main where the code continues
OpenError_Returns ==
  /\ pc = "for"
  /\ idx < Len(svg_files)
  /\ LET name == svg_files[idx + 1]
     IN  /\ name # "-"
         /\ FileSystem(name).kind = "error"
         /\ stderr' = Append(stderr, <<progname, ": ", name, ": ",
                                       FileSystem(name).strerror>>)
  /\ file_handle' = "None"
  /\ rtn' = rtn + 1
  /\ idx' = idx + 1
  /\ status' \in ExitStatuses(rtn')
  /\ pc' = "exit"
  /\ UNCHANGED <<svg_files, id, whitespace, stdin, tree, iter, element,
                 prefix, text, stdout, opens, closes, exc>>

\* a failed open that is reported and not counted
OpenError_NotCounted ==
  /\ pc = "for"
  /\ idx < Len(svg_files)
  /\ LET name == svg_files[idx + 1]
     IN  /\ name # "-"
         /\ FileSystem(name).kind = "error"
         /\ stderr' = Append(stderr, <<progname, ": ", name, ": ",
                                       FileSystem(name).strerror>>)
  /\ file_handle' = "None"
  /\ idx' = idx + 1
  /\ pc' = "for"
  /\ UNCHANGED <<svg_files, id, whitespace, stdin, rtn, tree, iter, element,
                 prefix, text, stdout, opens, closes, exc, status>>

\* lines 95-101 and 46-52: the next file name does not open
OpenError ==
  /\ pc = "for"
  /\ idx < Len(svg_files)
  /\ LET name == svg_files[idx + 1]
     IN  /\ name # "-"
         /\ FileSystem(name).kind = "error"
         /\ stderr' = Append(stderr, <<progname, ": ", name, ": ",
                                       FileSystem(name).strerror>>)
  /\ file_handle' = "None"
  /\ rtn' = rtn + 1
  /\ idx' = idx + 1
  /\ pc' = "for"
  /\ UNCHANGED <<svg_files, id, whitespace, stdin, tree, iter, element,
                 prefix, text, stdout, opens, closes, exc, status>>

\* what the handle of the current file has left to read
Content == IF filename = "-" THEN stdin ELSE FileSystem(filename).events

\* lines 103-104: the document parses
ParseTree ==
  /\ pc = "parse"
  /\ Parse(Content).ok
  /\ tree' = Parse(Content)
  /\ iter' = TreeIter(tree', SVG_TEXT)
  /\ stdin' = IF filename = "-" THEN <<>> ELSE stdin
  /\ pc' = "iter"
  /\ UNCHANGED <<svg_files, id, whitespace, idx, rtn, file_handle, element,
                 prefix, text, stdout, stderr, opens, closes, exc, status>>

\* a parse failure handled the way a failed open is
ParseError_Recovered ==
  /\ pc = "parse"
  /\ ~Parse(Content).ok
  /\ stderr' = Append(stderr, <<progname, ": ", filename, ": ", "ParseError">>)
  /\ closes' = Finally(filename, idx, file_handle, closes)
  /\ rtn' = rtn + 1
  /\ pc' = "for"
  /\ UNCHANGED <<svg_files, id, whitespace, stdin, idx, file_handle, tree,
                 iter, element, prefix, text, stdout, opens, exc, status>>

\* line 103: the document does not parse
ParseError ==
  /\ pc = "parse"
  /\ ~Parse(Content).ok
  /\ Raise("ParseError")

\* line 104: the next text element
NextElement ==
  /\ pc = "iter"
  /\ iter # <<>>
  /\ element' = Head(iter)
  /\ iter' = Tail(iter)
  /\ pc' = "prefix"
  /\ UNCHANGED <<svg_files, id, whitespace, stdin, idx, rtn, file_handle,
                 tree, prefix, text, stdout, stderr, opens, closes, exc,
                 status>>

\* line 104 and 56-58: no element is left, the with statement ends
EndWith ==
  /\ pc = "iter"
  /\ iter = <<>>
  /\ closes' = Finally(filename, idx, file_handle, closes)
  /\ pc' = "for"
  /\ UNCHANGED <<svg_files, id, whitespace, stdin, idx, rtn, file_handle,
                 tree, iter, element, prefix, text, stdout, stderr, opens,
                 exc, status>>

attrib == tree.nodes[element].attrib

\* a lookup that takes a missing id as the empty string
Prefix_MissingIsEmpty ==
  /\ pc = "prefix"
  /\ prefix' = IF id
               THEN (IF "id" \in DOMAIN attrib THEN attrib["id"] ELSE <<>>)
                    \o <<":", " ">>
               ELSE <<>>
  /\ pc' = "text"
  /\ UNCHANGED <<svg_files, id, whitespace, stdin, idx, rtn, file_handle,
                 tree, iter, element, text, stdout, stderr, opens, closes,
                 exc, status>>

\* line 105
Prefix ==
  /\ pc = "prefix"
  /\ id => "id" \in DOMAIN attrib
  /\ prefix' = IF id THEN attrib["id"] \o <<":", " ">> ELSE <<>>
  /\ pc' = "text"
  /\ UNCHANGED <<svg_files, id, whitespace, stdin, idx, rtn, file_handle,
                 tree, iter, element, text, stdout, stderr, opens, closes,
                 exc, status>>

\* line 105: the element has no id attribute
KeyError ==
  /\ pc = "prefix"
  /\ id
  /\ "id" \notin DOMAIN attrib
  /\ Raise("KeyError")

\* line 106
ChildrensText ==
  /\ pc = "text"
  /\ text' = get_childrens_text(tree.nodes, element)
  /\ pc' = "ws"
  /\ UNCHANGED <<svg_files, id, whitespace, stdin, idx, rtn, file_handle,
                 tree, iter, element, prefix, stdout, stderr, opens, closes,
                 exc, status>>

\* lines 107-108
Whitespace ==
  /\ pc = "ws"
  /\ text' = IF whitespace THEN join(<<" ">>, split(text)) ELSE text
  /\ pc' = "print"
  /\ UNCHANGED <<svg_files, id, whitespace, stdin, idx, rtn, file_handle,
                 tree, iter, element, prefix, stdout, stderr, opens, closes,
                 exc, status>>

\* line 109
PrintLine ==
  /\ pc = "print"
  /\ stdout' = Append(stdout, prefix \o repr(text))
  /\ pc' = "iter"
  /\ UNCHANGED <<svg_files, id, whitespace, stdin, idx, rtn, file_handle,
                 tree, iter, element, prefix, text, stderr, opens, closes,
                 exc, status>>

\* line 109: nobody reads standard output any more
BrokenPipe ==
  /\ pc = "print"
  /\ Raise("BrokenPipeError")

\* lines 111 and 115
Return ==
  /\ pc = "for"
  /\ idx = Len(svg_files)
  /\ status' \in ExitStatuses(rtn)
  /\ pc' = "exit"
  /\ UNCHANGED <<svg_files, id, whitespace, stdin, idx, rtn, file_handle,
                 tree, iter, element, prefix, text, stdout, stderr, opens,
                 closes, exc>>

\* lines 116-117 and 120: the user interrupts the program
KeyboardInterrupt ==
  /\ pc # "exit"
  /\ Raise("KeyboardInterrupt")

Next ==
  \/ ParseArgs
  \/ OpenFile
  \/ OpenError
  \/ ParseTree
  \/ ParseError
  \/ NextElement
  \/ EndWith
  \/ Prefix
  \/ KeyError
  \/ ChildrensText
  \/ Whitespace
  \/ PrintLine
  \/ BrokenPipe
  \/ Return
  \/ KeyboardInterrupt

Spec == Init /\ [][Next]_vars

TypeOK ==
  /\ pc \in {"main", "for", "parse", "iter", "prefix", "text", "ws", "print",
             "exit"}
  /\ idx \in 0..Len(svg_files)
  /\ rtn \in 0..idx

(***************************************************************************)
(* What the claims speak of, read off the command line and the documents   *)
(* themselves rather than off the program's variables.                     *)
(***************************************************************************)
\* the token at position k opens
Opens(k) == svg_files[k] = "-" \/ FileSystem(svg_files[k]).kind = "file"

\* what a successful open at position k gives to read: standard input is
\* at its end once it has been read
DocAt(k) ==
  IF svg_files[k] = "-"
  THEN IF \E j \in 1..(k - 1) : svg_files[j] = "-" THEN <<>> ELSE DocStdin
  ELSE FileSystem(svg_files[k]).events

\* the documents there are to read, and those of them that parse
Documents ==
  {FileSystem(n).events : n \in {m \in FileNames : FileSystem(m).kind = "file"}}
  \cup {DocStdin, <<>>}

WellFormed == {ev \in Documents : Parse(ev).ok}

Parses(k) == Opens(k) /\ DocAt(k) \in WellFormed

Positions(ev) == [i \in 1..Len(ev) |-> i]

\* the start tags of the SVG text elements, in document order
TextStarts(ev) ==
  SelectSeq(Positions(ev),
            LAMBDA p : ev[p].k = "start" /\ ev[p].tag = SVG_TEXT)

\* the end tag of the element that starts at p, in a well-formed document
RECURSIVE EndFrom(_, _, _)
EndFrom(ev, q, depth) ==
  IF ev[q].k = "start" THEN EndFrom(ev, q + 1, depth + 1)
  ELSE IF ev[q].k = "end"
       THEN IF depth = 1 THEN q ELSE EndFrom(ev, q + 1, depth - 1)
       ELSE EndFrom(ev, q + 1, depth)

EndOf(ev, p) == EndFrom(ev, p, 0)

\* the last tag before position q
RECURSIVE PrevTag(_, _)
PrevTag(ev, q) == IF ev[q - 1].k = "data" THEN PrevTag(ev, q - 1) ELSE q - 1

\* character data directly inside an element, before its first child:
\* data whose last tag is a start tag (after an end tag it is a tail)
IsFragment(ev, q) == ev[q].k = "data" /\ ev[PrevTag(ev, q)].k = "start"

\* the fragments of the element that starts at p and of its descendants
Fragments(ev, p) ==
  LET inside == SelectSeq(Positions(ev),
                          LAMBDA q : p < q /\ q < EndOf(ev, p)
                                     /\ IsFragment(ev, q))
  IN  Concat([k \in DOMAIN inside |-> ev[inside[k]].chars])

\* t is s with every maximal run of characters of W made one space, and
\* none at either end
NonSpaces(s, W) == SelectSeq(Positions(s), LAMBDA i : s[i] \notin W)

IsCollapse(t, s, W) ==
  LET ps == NonSpaces(s, W)
      qs == NonSpaces(t, {" "})
  IN  /\ Len(ps) = Len(qs)
      /\ \A i \in DOMAIN ps : t[qs[i]] = s[ps[i]]
      /\ \A i \in DOMAIN t : t[i] = " " =>
           /\ 1 < i /\ i < Len(t)
           /\ t[i + 1] # " "
      /\ \A i \in 1..(Len(ps) - 1) :
           (qs[i + 1] = qs[i] + 1) <=> (ps[i + 1] = ps[i] + 1)

\* the line of the text element that starts at p, with the id wanted or
\* not and the whitespace collapsed or not
Payload(ev, p, w) ==
  IF w THEN join(<<" ">>, split(Fragments(ev, p))) ELSE Fragments(ev, p)

Line(ev, p, i, w) ==
  (IF i THEN ev[p].attrib["id"] \o <<":", " ">> ELSE <<>>)
  \o repr(Payload(ev, p, w))

\* the text elements of a document that get a line: all of them, or in id
\* mode those before the first one that has no id
RECURSIVE Printable(_, _, _)
Printable(ev, ps, i) ==
  IF ps = <<>> \/ (i /\ "id" \notin DOMAIN ev[Head(ps)].attrib) THEN <<>>
  ELSE <<Head(ps)>> \o Printable(ev, Tail(ps), i)

DocLines(ev, i, w) ==
  LET ps == Printable(ev, TextStarts(ev), i)
  IN  [n \in DOMAIN ps |-> Line(ev, ps[n], i, w)]

LinesOf ==
  [ev \in WellFormed |-> [i \in BOOLEAN |-> [w \in BOOLEAN |->
     DocLines(ev, i, w)]]]

TextCount == [ev \in WellFormed |-> Len(TextStarts(ev))]

\* the lines of the token at k
Lines(k) == IF Parses(k) THEN LinesOf[DocAt(k)][id][whitespace] ELSE <<>>

\* the number of text elements of the token at k
Texts(k) == IF Parses(k) THEN TextCount[DocAt(k)] ELSE 0

RECURSIVE Sum(_)
Sum(ns) == IF ns = <<>> THEN 0 ELSE Head(ns) + Sum(Tail(ns))

\* the lines of the tokens 1..n
LinesUpTo(n) == Concat([k \in 1..n |-> Lines(k)])

Diagnostic(k) ==
  <<progname, ": ", svg_files[k], ": ", FileSystem(svg_files[k]).strerror>>

\* the diagnostics of the tokens 1..n that do not open
DiagnosticsUpTo(n) ==
  LET failed == SelectSeq([k \in 1..n |-> k], LAMBDA k : ~Opens(k))
  IN  [i \in DOMAIN failed |-> Diagnostic(failed[i])]

Failed(n) == {k \in 1..n : ~Opens(k)}

IsPrefix(s, t) == Len(s) <= Len(t) /\ s = SubSeq(t, 1, Len(s))

Returned == pc = "exit" /\ exc = "None"

(***************************************************************************)
(* The claims.                                                             *)
(***************************************************************************)
AllOpen == \A k \in DOMAIN svg_files : Opens(k)

OpenedAt == {o.pos : o \in Range(opens)}

\* the file handles that open() returned and nobody closed yet
StillOpen == {o \in Range(opens) : o.handle = "file" /\ o \notin Range(closes)}

\* C1: when main returns, the exit status of the process is the number of
\* tokens whose open failed, each occurrence counted once; so it is 0 if
\* and only if every input opened.
C1_StatusIsFailureCount ==
  Returned => status = Cardinality(Failed(Len(svg_files)))

\* C2: the exit status is the failure count capped to 0..255: with more
\* than 255 failed opens it is 255, never a wrapped value.
C2_StatusIsCapped ==
  Returned => status = IF rtn > 255 THEN 255 ELSE rtn

\* C3: when every input opens and parses and main returns, standard output
\* holds exactly one line per SVG text element (nested ones and the root
\* included), in document order within a file and in command-line order
\* across files; a document without text elements gives no line.
C3_OneLinePerTextElement ==
  (Returned /\ AllOpen) =>
    /\ stdout = LinesUpTo(Len(svg_files))
    /\ Len(stdout) = Sum([k \in DOMAIN svg_files |-> Texts(k)])

C3_Witness ==
  /\ Returned
  /\ AllOpen
  /\ {"notext.svg", "nested.svg", "one.svg"} \subseteq Range(svg_files)
  /\ svg_files[idx] = "nested.svg"
  /\ Len(stdout) = 4

\* C4: a failed open is recovered locally: it writes one diagnostic naming
\* the file and the reason to standard error and nothing to standard
\* output, and the tokens after it are still resolved and extracted: each
\* time the loop takes its next token, and when main returns, standard
\* error holds the diagnostics of the failed tokens so far, standard output
\* the lines of the others, and every token that opens has been opened.
C4_OpenFailureRecovered ==
  (pc = "for" \/ Returned) =>
    /\ stderr = DiagnosticsUpTo(idx)
    /\ stdout = LinesUpTo(idx)
    /\ OpenedAt = {k \in 1..idx : Opens(k)}
    /\ Returned => idx = Len(svg_files)

C4_Witness ==
  /\ Returned
  /\ Len(svg_files) = 3
  /\ ~Opens(2)
  /\ Lines(1) # <<>>
  /\ Lines(3) # <<>>
  /\ Len(stderr) = 1

\* C5 as stated: an input that fails to open or to parse gives no line and
\* adds one to the Run Outcome; the number of lines is the number of text
\* elements of the inputs that opened and parsed.
C5_ParseFailureCounted ==
  (pc = "exit" /\ exc \in {"None", "ParseError"}) =>
    /\ rtn = Cardinality({k \in 1..idx : ~Parses(k)})
    /\ Len(stdout) = Sum([k \in 1..idx |-> Texts(k)])

\* C5 amended: an input that fails to open gives no line and adds one to
\* the Run Outcome; an input that fails to parse gives no line and leaves
\* the Run Outcome as it is; when the run ends by main returning or by a
\* parse fault, the number of lines is the number of text elements of the
\* inputs that opened and parsed.
C5_OnlyOpenFailureCounted ==
  /\ rtn = Cardinality(Failed(idx))
  /\ (pc = "exit" /\ exc \in {"None", "ParseError"}) =>
       Len(stdout) = Sum([k \in 1..idx |-> Texts(k)])

C5_Witness ==
  /\ pc = "exit"
  /\ exc = "ParseError"
  /\ rtn = 1
  /\ Len(stdout) = 2

\* C6: a handle that open() returned is closed exactly once, before the
\* next token is resolved or the run ends, on every way out of the body of
\* the with statement, and not before; so at most one file is open at a
\* time. Standard input is never closed, and a failed open closes nothing.
C6_HandleReleased ==
  /\ Range(closes) \subseteq {o \in Range(opens) : o.handle = "file"}
  /\ \A i, j \in DOMAIN closes : closes[i] = closes[j] => i = j
  /\ StillOpen \subseteq {[pos |-> idx, handle |-> "file"]}
  /\ pc \in {"for", "exit"} => StillOpen = {}
  /\ (InWith /\ svg_files[idx] # "-") =>
       StillOpen = {[pos |-> idx, handle |-> "file"]}

C6_Witness ==
  /\ pc = "exit"
  /\ exc = "ParseError"
  /\ Len(closes) = 2
  /\ \E o \in Range(opens) : o.handle = "stdin"

\* C7: the aggregated text of a text element, before any collapse, is the
\* concatenation in document order, with no separator, of the non-empty
\* direct-text fragments of the element and of its descendants; tail text
\* is no fragment, and without fragments the text is empty.
C7_AggregatedText ==
  pc = "ws" => text = Fragments(DocAt(idx), element)

C7_Witness ==
  /\ pc = "ws"
  /\ svg_files[idx] = "nested.svg"
  /\ element = 1
  /\ text = <<" ", "a", "b", "c", NBSP, "'", "d">>

FiveWhitespace == {" ", "\t", "\n", "\r", "\f"}

\* C8 as stated: with collapse requested the payload is the aggregated text
\* split on runs of exactly space, tab, newline, carriage return and form
\* feed, the tokens joined by one space; no other character separates.
\* Without collapse the text is left as it is.
C8_FiveWhitespaceCollapse ==
  pc = "print" =>
    IF whitespace
    THEN IsCollapse(text, Fragments(DocAt(idx), element), FiveWhitespace)
    ELSE text = Fragments(DocAt(idx), element)

\* C8 amended: with collapse requested the payload is the aggregated text
\* split on runs of the characters str.split() takes as whitespace (the
\* five named ones and also vertical tab, the separators U+001C..U+001F,
\* next line U+0085, no-break space and the other Unicode spaces), the
\* tokens joined by one space, none at either end. Without collapse the
\* text is left as it is.
C8_UnicodeWhitespaceCollapse ==
  pc = "print" =>
    IF whitespace
    THEN IsCollapse(text, Fragments(DocAt(idx), element), PyWhitespace)
    ELSE text = Fragments(DocAt(idx), element)

C8_Witness ==
  /\ pc = "print"
  /\ whitespace
  /\ Fragments(DocAt(idx), element) = <<"c", NBSP, "'", "d">>
  /\ text = <<"c", " ", "'", "d">>

\* C9: a parse failure is not recovered: the fault leaves main and ends the
\* run; no later input is opened, nothing more is printed and no later
\* open failure is reported, the exit status is that of an uncaught fault
\* and not the Run Outcome, and the lines of the earlier inputs stay.
C9_ParseFailureAborts ==
  LET unparsed == idx >= 1 /\ Opens(idx) /\ ~Parses(idx)
  IN  /\ \A k \in 1..(idx - 1) : Opens(k) => Parses(k)
      /\ unparsed =>
           /\ pc \in {"parse", "exit"}
           /\ OpenedAt = {k \in 1..idx : Opens(k)}
           /\ stdout = LinesUpTo(idx - 1)
      /\ (unparsed /\ pc = "exit" /\ exc # "KeyboardInterrupt") =>
           /\ exc = "ParseError"
           /\ stderr = Append(DiagnosticsUpTo(idx),
                         <<"Traceback (most recent call last):", "ParseError">>)
           /\ status = 1
      /\ exc = "ParseError" => unparsed

C9_Witness ==
  /\ exc = "ParseError"
  /\ idx = 2
  /\ Len(svg_files) = 3
  /\ ~Opens(3)
  /\ stdout # <<>>
  /\ rtn = 0

\* C10: in id mode every line is the id of its element, colon, space and
\* the payload, also when the id is empty, and a text element without an
\* id raises a lookup fault before its line is printed: the run ends with
\* the lines of the earlier elements printed and none for it or for what
\* follows. Without id mode no line has a prefix and no id is looked up.
C10_IdPrefixOrFault ==
  /\ IsPrefix(stdout, LinesUpTo(idx))
  /\ pc = "text" =>
       IF id
       THEN /\ "id" \in DOMAIN DocAt(idx)[element].attrib
            /\ prefix = DocAt(idx)[element].attrib["id"] \o <<":", " ">>
       ELSE prefix = <<>>
  /\ exc = "KeyError" =>
       /\ id
       /\ pc = "exit"
       /\ "id" \notin DOMAIN DocAt(idx)[element].attrib
       /\ stdout = LinesUpTo(idx)
       /\ status = 1

C10_Witness ==
  /\ exc = "KeyError"
  /\ svg_files = <<"nested.svg", "noid.svg", "one.svg">>
  /\ Len(stdout) = 3
  /\ stdout[1] = <<":", " ", "\"", " ", "a", "b", "c", "\\", "x", "a", "0",
                   "'", "d", "\"">>

====
